---- MODULE Spec2Model ----
(***************************************************************************)
(* State-machine model of the Multi-Source RAG Engine (Streamlit app).     *)
(*                                                                         *)
(* Every browser session runs app.py top to bottom on each event, in its   *)
(* own thread, over its own st.session_state.  The st.cache_data and       *)
(* st.cache_resource memo tables and the working directory are shared by   *)
(* all sessions of the server process.                                     *)
(***************************************************************************)
EXTENDS Naturals, Sequences, FiniteSets

VARIABLES
    allowed,              \* the sessions connected to the server in this run
    rag_chain,            \* st.session_state.rag_chain, per session
    chat_history,         \* st.session_state.chat_history, per session
    suggested_questions,  \* st.session_state.suggested_questions, per session
    source_name,          \* st.session_state.source_name, per session
    pc,                   \* where each session's script run stands
    source_docs,          \* process_new_source's argument source_docs
    new_name,             \* process_new_source's argument source_name
    vector_store,         \* process_new_source's local vector_store
    full_response,        \* streaming block's local full_response
    context_docs,         \* streaming block's local context_docs
    retrieval,            \* how the open stream's retriever got its query
    shown,                \* what the last script run rendered of the chat
    cache_vs,             \* st.cache_resource table of create_vector_store
    cache_chain,          \* st.cache_resource table of create_rag_chain
    cache_sq,             \* st.cache_data table of generate_suggested_questions
    cache_gvt,            \* st.cache_data table of get_video_transcript
    cache_whisper,        \* st.cache_data table of _transcribe_audio_with_whisper
    cache_web,            \* st.cache_data table of load_from_webpage
    cache_doc,            \* st.cache_data table of load_and_cache_document
    cache_pdf,            \* st.cache_data table of load_from_pdf
    cache_docx,           \* st.cache_data table of load_from_docx
    files,                \* the files in the server's working directory
    video,                \* the handler's call of get_video_transcript (line 107)
    upload,               \* the handler's calls of load_and_cache_document (123)
    pre,                  \* session state when the handler or stream began
    before_ask,           \* chat_history before the pending question was added
    returned_none,        \* URLs whose last get_video_transcript gave None
    outcome,              \* how each session's last handler ended
    nIngests,             \* Process clicks so far (bounded)
    nAsks                 \* questions submitted so far (bounded)

vars == << allowed, rag_chain, chat_history, suggested_questions, source_name,
           pc, source_docs, new_name, vector_store, full_response,
           context_docs, retrieval, shown, cache_vs, cache_chain, cache_sq,
           cache_gvt, cache_whisper, cache_web, cache_doc, cache_pdf,
           cache_docx, files, video, upload, pre, before_ask,
           returned_none, outcome, nIngests, nAsks >>

sessionVars == << rag_chain, chat_history, suggested_questions, source_name >>
localVars == << source_docs, new_name, vector_store, full_response,
                context_docs, retrieval >>
docCacheVars == << cache_doc, cache_pdf, cache_docx >>
cacheVars == << cache_vs, cache_chain, cache_sq, cache_gvt, cache_whisper,
                cache_web, docCacheVars >>

---------------------------------------------------------------------------
(* Bounds of the model *)

MaxIngests == 2
MaxAsks == 2

Sessions == {"s1", "s2"}

(* URLs are token sequences, so that the substring tests and the split of   *)
(* get_video_transcript are computed, not assumed.                          *)
YT1 == << "youtube.com", "/watch?", "v=", "a" >>
YT2 == << "youtu.be", "/", "b" >>
WEB1 == << "example.com", "/page" >>
URLs == {YT1, YT2, WEB1}

Questions == { << "q" >> }

---------------------------------------------------------------------------
(* Values *)

Contains(s, tok) == \E i \in 1..Len(s) : s[i] = tok

Range(seq) == {seq[i] : i \in 1..Len(seq)}

StartsWith(s, prefix) ==
    /\ Len(s) >= Len(prefix)
    /\ SubSeq(s, 1, Len(prefix)) = prefix

(* The fixed marker of app.py line 138, and the replies the model streams,  *)
(* chunk by chunk, under the policies of the QA prompt (rag_pipeline.py     *)
(* lines 128-130): one that opens with the marker and one that does not     *)
(* (general knowledge; "I don't know." is a reply without the marker too).  *)
ContextMarker == << "Based on the provided context:" >>
Answers == { << "Based on the provided context:", "answer" >>,
             << "Based on general knowledge:", "answer" >> }
AnswerTokens == {"Based on the provided context:",
                 "Based on general knowledge:", "answer"}

(* The chunks that can follow the text received so far. *)
NextChunks(received) ==
    { a[Len(received) + 1] :
        a \in { b \in Answers : /\ Len(b) > Len(received)
                                /\ SubSeq(b, 1, Len(received)) = received } }

Document(text) == [page_content |-> text]
HumanMessage(content) == [type |-> "human", content |-> content, context |-> << >>]
AIMessageOf(content, context) == [type |-> "ai", content |-> content, context |-> context]

(* None and a built chain; a chain is known by the documents its retriever  *)
(* searches.                                                                *)
NoChain == [built |-> FALSE, retriever |-> << >>]
Chain(retriever) == [built |-> TRUE, retriever |-> retriever]
NoStore == [built |-> FALSE, index |-> << >>]
Store(documents) == [built |-> TRUE, index |-> documents]

(* A memo table of st.cache_data / st.cache_resource: a set of entries,      *)
(* one per key.  The key is made of the arguments whose names do not start  *)
(* with an underscore.                                                      *)
CacheNeverHits(table, key) == FALSE
CacheHit(table, key) == \E e \in table : e.key = key
CacheValue(table, key) == (CHOOSE e \in table : e.key = key).value
CachePut(table, key, v) ==
    {e \in table : e.key # key} \cup {[key |-> key, value |-> v]}
NoArgs == << >>

NoTranscript == << >>

(* The retriever of a stream that has not run yet. *)
NoRetrieval == [how |-> "pending", query |-> << >>]

SessionState(s) ==
    [rag_chain |-> rag_chain[s], chat_history |-> chat_history[s],
     source_name |-> source_name[s],
     suggested_questions |-> suggested_questions[s]]

---------------------------------------------------------------------------
(* src/video_processor.py *)

(* Paths are sequences of parts: temp_audio.mp4 and temp_audio.mp3 in the   *)
(* working directory.                                                      *)
MP4 == << "temp_audio", ".mp4" >>
MP3 == << "temp_audio", ".mp3" >>

(* What yt_dlp, ffmpeg and faster_whisper can do in one body run:           *)
(*   download_fails    ydl.download raises before any file is written       *)
(*   postprocess_fails the download wrote temp_audio.mp4, FFmpegExtractAudio *)
(*                     raises                                               *)
(*   mp3_missing       download returns, temp_audio.mp3 does not exist      *)
(*   transcribe_fails  temp_audio.mp3 exists, WhisperModel/transcribe raises *)
(*   ok                the transcription is returned                        *)
WhisperOutcomes == {"download_fails", "postprocess_fails", "mp3_missing",
                    "transcribe_fails", "ok"}

(* ydl.download([youtube_url]) with outtmpl temp_audio.mp4 and the          *)
(* FFmpegExtractAudio post-processor: the download writes the mp4; a        *)
(* post-processor that succeeds writes the mp3 and deletes the mp4.         *)
YdlDownload(fs, wo) ==
    IF wo = "download_fails" THEN fs
    ELSE IF wo \in {"postprocess_fails", "mp3_missing"} THEN fs \cup {MP4}
    ELSE (fs \ {MP4}) \cup {MP3}

(* The finally block of _transcribe_audio_with_whisper. *)
WhisperFinally(fs) == IF MP3 \in fs THEN fs \ {MP3} ELSE fs

(* The body of _transcribe_audio_with_whisper: result and files left. *)
TranscribeAudioWithWhisper(url, fs, wo) ==
    LET downloaded == YdlDownload(fs, wo)
        raised == \/ wo \in {"download_fails", "postprocess_fails"}
                  \/ MP3 \notin downloaded
                  \/ wo = "transcribe_fails"
    IN  [result |-> IF raised THEN NoTranscript ELSE << "transcription", url[Len(url)] >>,
         files |-> WhisperFinally(downloaded)]

(* youtube_url.split("v=")[1].split("&")[0]: IndexError without "v=". *)
HasVideoId(url) == Contains(url, "v=")
VideoId(url) == url[(CHOOSE i \in 1..Len(url) : url[i] = "v=") + 1]

FetchOutcomes == {"ok", "NoTranscriptFound", "error"}

(* What the calls of one body run can do: ytt_api.fetch is reached only     *)
(* with a video id, the fallback's body runs only on a miss of its table.   *)
FetchOutcomesOf(url) == IF HasVideoId(url) THEN FetchOutcomes ELSE {"ok"}
WhisperOutcomesOf(url, whisper) ==
    IF HasVideoId(url) /\ ~CacheHit(whisper, url) THEN WhisperOutcomes
    ELSE {"ok"}

(* Which except clause of get_video_transcript takes a failed fetch to the  *)
(* audio fallback.                                                          *)
FallsBackAnyError(fo) == fo # "ok"
FallsBack(fo) == fo = "NoTranscriptFound"

(* The body of get_video_transcript on a cache miss.  fo is what            *)
(* ytt_api.fetch does, wo what the fallback's body would do; whisper is the *)
(* memo table of the fallback.                                              *)
GetVideoTranscript(url, fo, wo, fs, whisper) ==
    IF ~HasVideoId(url)
    THEN [result |-> NoTranscript, events |-> << >>, fetch |-> "not_attempted",
          files |-> fs, whisper |-> whisper]
    ELSE IF fo = "ok"
    THEN [result |-> << "transcript", VideoId(url) >>, events |-> << "fetch" >>,
          fetch |-> fo, files |-> fs, whisper |-> whisper]
    ELSE IF FallsBack(fo)
    THEN IF CacheHit(whisper, url)
         THEN [result |-> CacheValue(whisper, url), events |-> << "fetch" >>,
               fetch |-> fo, files |-> fs, whisper |-> whisper]
         ELSE LET w == TranscribeAudioWithWhisper(url, fs, wo)
              IN  [result |-> w.result, events |-> << "fetch", "transcribe" >>,
                   fetch |-> fo, files |-> w.files,
                   whisper |-> CachePut(whisper, url, w.result)]
    ELSE [result |-> NoTranscript, events |-> << "fetch" >>, fetch |-> fo,
          files |-> fs, whisper |-> whisper]

NoVideo == [url |-> << >>, cached |-> FALSE, events |-> << >>,
            fetch |-> "not_attempted", result |-> NoTranscript]

---------------------------------------------------------------------------
(* src/app.py load_and_cache_document and src/data_loader.py *)

PdfType == "application/pdf"
DocxType == "application/vnd.openxmlformats-officedocument.wordprocessingml.document"

(* Uploaded files: the name as stem and extension, the MIME type the        *)
(* browser sent, the bytes.  ODD1 passes the uploader's extension filter    *)
(* with a type that is neither of the two the function knows.              *)
ODD1 == [name |-> << "scan", ".pdf" >>, type |-> "application/octet-stream",
         content |-> "bytes0"]
PDF1 == [name |-> << "paper", ".pdf" >>, type |-> PdfType, content |-> "bytes1"]
DOCX1 == [name |-> << "memo", ".docx" >>, type |-> DocxType, content |-> "bytes2"]
Uploads == { << ODD1 >>, << ODD1, PDF1, DOCX1 >> }

(* hashlib.md5(file_content).hexdigest() and os.path.splitext(name)[1]. *)
Md5(content) == << "md5", content >>
Splitext(name) == IF Len(name) > 1 THEN name[Len(name)] ELSE ""

TempPath(f) == << "temp_docs_cache" >> \o Md5(f.content) \o << Splitext(f.name) >>

(* ", ".join([f.name for f in uploaded_files]), line 120. *)
RECURSIVE JoinNames(_)
JoinNames(upl) ==
    IF Len(upl) = 1 THEN upl[1].name
    ELSE upl[1].name \o << ", " >> \o JoinNames(Tail(upl))

(* PyPDFLoader(path).load_and_split() and Docx2txtLoader(path).load(): the  *)
(* segments of the file at path, or an exception (no such file, a file the  *)
(* parser rejects).                                                         *)
LoaderOutcomes == {"ok", "raises"}
LoadFromFile(path, fs, lo) ==
    IF path \notin fs \/ lo # "ok" THEN [raised |-> TRUE, value |-> << >>]
    ELSE [raised |-> FALSE, value |-> << Document(<< "text of" >> \o path) >>]

(* load_from_pdf / load_from_docx, memoized on the path. *)
CachedLoad(table, path, fs, lo) ==
    IF CacheHit(table, path)
    THEN [raised |-> FALSE, value |-> CacheValue(table, path), table |-> table]
    ELSE LET r == LoadFromFile(path, fs, lo)
         IN  [raised |-> r.raised, value |-> r.value,
              table |-> IF r.raised THEN table
                        ELSE CachePut(table, path, r.value)]

(* The finally block of load_and_cache_document, lines 81-82. *)
LeavesTempFile(fs, path) == fs
LoadFinally(fs, path) == IF path \in fs THEN fs \ {path} ELSE fs

(* The body of load_and_cache_document (lines 70-82) on file f, over the    *)
(* regular files fs: the bytes are written, the loader of the type runs,    *)
(* and the finally block removes the file.                                  *)
LoadAndCacheDocument(f, lo, fs, pdf, docx) ==
    LET path == TempPath(f)
        written == fs \cup {path}
        r == IF f.type = PdfType THEN CachedLoad(pdf, path, written, lo)
             ELSE IF f.type = DocxType THEN CachedLoad(docx, path, written, lo)
             ELSE [raised |-> FALSE, value |-> << >>, table |-> {}]
    IN  [raised |-> r.raised, value |-> r.value,
         how |-> IF r.raised THEN "raised"
                 ELSE IF f.type \in {PdfType, DocxType} THEN "loaded"
                 ELSE "unsupported",
         path |-> path,
         files |-> LoadFinally(written, path),
         pdf |-> IF f.type = PdfType THEN r.table ELSE pdf,
         docx |-> IF f.type = DocxType THEN r.table ELSE docx]

(* The memo key of load_and_cache_document: its three arguments. *)
DocKey(f) == << f.content, f.name, f.type >>

(* Lines 119-123: the loop over the uploaded files from file i on, each     *)
(* through the memoized load_and_cache_document; los[i] is what the loader  *)
(* of file i does if it runs.  An exception ends the loop.                  *)
RECURSIVE LoadAll(_, _, _, _)
LoadAll(upl, los, i, acc) ==
    IF i > Len(upl) \/ acc.raised THEN acc
    ELSE IF CacheHit(acc.doc, DocKey(upl[i]))
    THEN LoadAll(upl, los, i + 1,
                 [acc EXCEPT
                    !.all_docs = @ \o CacheValue(acc.doc, DocKey(upl[i])),
                    !.calls = Append(@, [path |-> TempPath(upl[i]),
                                         how |-> "cached"])])
    ELSE LET r == LoadAndCacheDocument(upl[i], los[i], acc.files, acc.pdf,
                                       acc.docx)
         IN  LoadAll(upl, los, i + 1,
                     [raised |-> r.raised,
                      all_docs |-> acc.all_docs \o r.value,
                      files |-> r.files,
                      doc |-> IF r.raised THEN acc.doc
                              ELSE CachePut(acc.doc, DocKey(upl[i]), r.value),
                      pdf |-> r.pdf,
                      docx |-> r.docx,
                      calls |-> Append(acc.calls, [path |-> r.path,
                                                   how |-> r.how])])

(* What the loaders of the files of one upload can do, file by file; a     *)
(* file of another type reaches no loader.                                  *)
LoaderOutcomesOf(upl) ==
    {los \in [1..Len(upl) -> LoaderOutcomes] :
        \A i \in 1..Len(upl) :
            upl[i].type \notin {PdfType, DocxType} => los[i] = "ok"}

NoUpload == [raised |-> FALSE, calls |-> << >>]

---------------------------------------------------------------------------
(* src/app.py: rendering and the streaming block's guard *)

(* Lines 135-143: per message, the text of the bubble and the documents of   *)
(* its "Show Sources" expander.                                             *)
ShowsSourcesAlways(msg) == msg.type = "ai" /\ msg.context # << >>
ShowsSources(msg) ==
    /\ msg.type = "ai"
    /\ StartsWith(msg.content, ContextMarker)
    /\ msg.context # << >>

RenderChat(st) ==
    IF ~st.rag_chain.built THEN << >>
    ELSE [i \in 1..Len(st.chat_history) |->
            [content |-> st.chat_history[i].content,
             sources |-> IF ShowsSources(st.chat_history[i])
                         THEN st.chat_history[i].context ELSE << >>]]

(* Line 129 and line 146. *)
StreamDueWhateverLastTurn(st) ==
    /\ st.rag_chain.built
    /\ st.chat_history # << >>
StreamDue(st) ==
    /\ st.rag_chain.built
    /\ st.chat_history # << >>
    /\ st.chat_history[Len(st.chat_history)].type = "human"

(* Lines 128-172 of a script run that carries no chat event, on session     *)
(* state st: render, then either open the answer stream (147-152) or reach  *)
(* the end of the script.                                                   *)
RunMainChat(s, st) ==
    /\ shown' = [shown EXCEPT ![s] = RenderChat(st)]
    /\ IF StreamDue(st)
       THEN /\ pc' = [pc EXCEPT ![s] = "retrieve"]
            /\ full_response' = [full_response EXCEPT ![s] = << >>]
            /\ context_docs' = [context_docs EXCEPT ![s] = << >>]
            /\ retrieval' = [retrieval EXCEPT ![s] = NoRetrieval]
       ELSE /\ pc' = [pc EXCEPT ![s] = "idle"]
            /\ full_response' = [full_response EXCEPT ![s] = << >>]
            /\ context_docs' = [context_docs EXCEPT ![s] = << >>]
            /\ retrieval' = [retrieval EXCEPT ![s] = NoRetrieval]

(* The script positions at which the sidebar's widgets take a click: a run   *)
(* that ended, or one inside the streaming loop, which the click tears down. *)
Interactive == {"idle", "crashed", "retrieve", "answer"}
Streaming == {"retrieve", "answer"}

(* The click starts a new script run: the locals of the streaming block of  *)
(* the run before are gone.                                                 *)
NewScriptRun(s) ==
    /\ full_response' = [full_response EXCEPT ![s] = << >>]
    /\ context_docs' = [context_docs EXCEPT ![s] = << >>]
    /\ retrieval' = [retrieval EXCEPT ![s] = NoRetrieval]

---------------------------------------------------------------------------
(* Initial state: each session after its first script run (lines 43-51,     *)
(* then the st.info of line 130).                                           *)

InitWith(connected) ==
    /\ allowed = connected
    /\ rag_chain = [s \in Sessions |-> NoChain]
    /\ chat_history = [s \in Sessions |-> << >>]
    /\ suggested_questions = [s \in Sessions |-> << >>]
    /\ source_name = [s \in Sessions |-> << >>]
    /\ pc = [s \in Sessions |-> "idle"]
    /\ source_docs = [s \in Sessions |-> << >>]
    /\ new_name = [s \in Sessions |-> << >>]
    /\ vector_store = [s \in Sessions |-> NoStore]
    /\ full_response = [s \in Sessions |-> << >>]
    /\ context_docs = [s \in Sessions |-> << >>]
    /\ retrieval = [s \in Sessions |-> NoRetrieval]
    /\ shown = [s \in Sessions |-> << >>]
    /\ cache_vs = {}
    /\ cache_chain = {}
    /\ cache_sq = {}
    /\ cache_gvt = {}
    /\ cache_whisper = {}
    /\ cache_web = {}
    /\ cache_doc = {}
    /\ cache_pdf = {}
    /\ cache_docx = {}
    /\ files = {}
    /\ video = [s \in Sessions |-> NoVideo]
    /\ upload = [s \in Sessions |-> NoUpload]
    /\ pre = [s \in Sessions |->
                [rag_chain |-> NoChain, chat_history |-> << >>,
                 source_name |-> << >>, suggested_questions |-> << >>]]
    /\ before_ask = [s \in Sessions |-> << >>]
    /\ returned_none = [since_ingest |-> {}, since_clear |-> {}]
    /\ outcome = [s \in Sessions |-> "none"]
    /\ nIngests = 0
    /\ nAsks = 0

(* One session alone on the server; and two, sharing the memo tables and   *)
(* the working directory.                                                   *)
Init == InitWith({"s1"})
InitConcurrent == InitWith(Sessions)

---------------------------------------------------------------------------
(* Sidebar: the Process URL handler, app.py lines 102-113 *)

IsYouTube(url) == Contains(url, "youtube.com") \/ Contains(url, "youtu.be")

(* Lines 106-108: a YouTube URL, through the memoized get_video_transcript; *)
(* docs is the transcript's one Document, or stays [].                      *)
ProcessVideoURL(s, url) ==
    /\ s \in allowed
    /\ pc[s] \in Interactive
    /\ nIngests < MaxIngests
    /\ IsYouTube(url)
    /\ nIngests' = nIngests + 1
    /\ pre' = [pre EXCEPT ![s] = SessionState(s)]
    /\ pc' = [pc EXCEPT ![s] = "extracted"]
    /\ outcome' = [outcome EXCEPT ![s] = "ingesting"]
    /\ new_name' = [new_name EXCEPT ![s] = url]
    /\ IF CacheHit(cache_gvt, url)
       THEN /\ video' = [video EXCEPT
                           ![s] = [url |-> url, cached |-> TRUE,
                                   events |-> << >>, fetch |-> "not_attempted",
                                   result |-> CacheValue(cache_gvt, url)]]
            /\ source_docs' = [source_docs EXCEPT
                   ![s] = IF CacheValue(cache_gvt, url) # NoTranscript
                          THEN << Document(CacheValue(cache_gvt, url)) >>
                          ELSE << >>]
            /\ UNCHANGED << cache_gvt, cache_whisper, files, returned_none >>
       ELSE \E fo \in FetchOutcomesOf(url),
               wo \in WhisperOutcomesOf(url, cache_whisper) :
              LET r == GetVideoTranscript(url, fo, wo, files, cache_whisper)
              IN  /\ video' = [video EXCEPT
                                 ![s] = [url |-> url, cached |-> FALSE,
                                         events |-> r.events, fetch |-> r.fetch,
                                         result |-> r.result]]
                  /\ files' = r.files
                  /\ cache_whisper' = r.whisper
                  /\ cache_gvt' = CachePut(cache_gvt, url, r.result)
                  /\ returned_none' =
                        IF r.result = NoTranscript
                        THEN [since_ingest |-> returned_none.since_ingest \cup {url},
                              since_clear |-> returned_none.since_clear \cup {url}]
                        ELSE [since_ingest |-> returned_none.since_ingest \ {url},
                              since_clear |-> returned_none.since_clear \ {url}]
                  /\ source_docs' = [source_docs EXCEPT
                         ![s] = IF r.result # NoTranscript
                                THEN << Document(r.result) >> ELSE << >>]
    /\ NewScriptRun(s)
    /\ UNCHANGED before_ask
    /\ UNCHANGED << allowed, sessionVars, vector_store, shown, cache_vs,
                    cache_chain, cache_sq, cache_web, docCacheVars, upload,
                    nAsks >>

(* src/data_loader.py load_from_webpage: WebBaseLoader(url).load() returns   *)
(* the page's documents, returns none, or raises.                           *)
WebOutcomes == {"ok", "empty", "raises"}
LoadFromWebpage(url, wo) ==
    IF wo = "ok" THEN << Document(<< "page", url[1] >>) >> ELSE << >>

(* Lines 109-110: any other URL, through the memoized load_from_webpage.    *)
(* An exception of the loader ends the script run.                          *)
ProcessWebURL(s, url) ==
    /\ s \in allowed
    /\ pc[s] \in Interactive
    /\ nIngests < MaxIngests
    /\ ~IsYouTube(url)
    /\ nIngests' = nIngests + 1
    /\ pre' = [pre EXCEPT ![s] = SessionState(s)]
    /\ IF CacheHit(cache_web, url)
       THEN /\ pc' = [pc EXCEPT ![s] = "extracted"]
            /\ outcome' = [outcome EXCEPT ![s] = "ingesting"]
            /\ source_docs' = [source_docs EXCEPT
                                 ![s] = CacheValue(cache_web, url)]
            /\ new_name' = [new_name EXCEPT ![s] = url]
            /\ UNCHANGED cache_web
       ELSE \E wo \in WebOutcomes :
              IF wo = "raises"
              THEN /\ pc' = [pc EXCEPT ![s] = "crashed"]
                   /\ outcome' = [outcome EXCEPT ![s] = "ingest_failed"]
                   /\ UNCHANGED << cache_web, source_docs, new_name >>
              ELSE /\ pc' = [pc EXCEPT ![s] = "extracted"]
                   /\ outcome' = [outcome EXCEPT ![s] = "ingesting"]
                   /\ cache_web' = CachePut(cache_web, url, LoadFromWebpage(url, wo))
                   /\ source_docs' = [source_docs EXCEPT
                                        ![s] = LoadFromWebpage(url, wo)]
                   /\ new_name' = [new_name EXCEPT ![s] = url]
    /\ NewScriptRun(s)
    /\ UNCHANGED << before_ask, returned_none >>
    /\ UNCHANGED << allowed, sessionVars, vector_store, shown, cache_vs,
                    cache_chain, cache_sq, cache_gvt, cache_whisper,
                    docCacheVars, files, video, upload, nAsks >>

(* Sidebar: the Process Documents handler, lines 116-123.  An exception of  *)
(* a loader leaves the loop and, in the next step, the script run.          *)
ProcessDocuments(s, upl) ==
    /\ s \in allowed
    /\ pc[s] \in Interactive
    /\ nIngests < MaxIngests
    /\ nIngests' = nIngests + 1
    /\ pre' = [pre EXCEPT ![s] = SessionState(s)]
    /\ pc' = [pc EXCEPT ![s] = "extracted"]
    /\ outcome' = [outcome EXCEPT ![s] = "ingesting"]
    /\ new_name' = [new_name EXCEPT ![s] = JoinNames(upl)]
    /\ \E los \in LoaderOutcomesOf(upl) :
         LET r == LoadAll(upl, los, 1,
                          [raised |-> FALSE, all_docs |-> << >>,
                           files |-> files, doc |-> cache_doc,
                           pdf |-> cache_pdf, docx |-> cache_docx,
                           calls |-> << >>])
         IN  /\ upload' = [upload EXCEPT
                             ![s] = [raised |-> r.raised, calls |-> r.calls]]
             /\ source_docs' = [source_docs EXCEPT
                                  ![s] = IF r.raised THEN << >> ELSE r.all_docs]
             /\ files' = r.files
             /\ cache_doc' = r.doc
             /\ cache_pdf' = r.pdf
             /\ cache_docx' = r.docx
    /\ NewScriptRun(s)
    /\ UNCHANGED << allowed, sessionVars, vector_store, shown, cache_vs,
                    cache_chain, cache_sq, cache_gvt, cache_whisper, cache_web,
                    video, before_ask, returned_none, nAsks >>

(* Lines 111-112 and 124-125 on the extracted docs: hand them to            *)
(* process_new_source, or report "Could not retrieve content." and run on   *)
(* into the main chat interface.                                            *)
AfterExtraction(s) ==
    /\ s \in allowed
    /\ pc[s] = "extracted"
    /\ video' = [video EXCEPT ![s] = NoVideo]
    /\ upload' = [upload EXCEPT ![s] = NoUpload]
    /\ IF upload[s].raised
       THEN /\ pc' = [pc EXCEPT ![s] = "crashed"]
            /\ outcome' = [outcome EXCEPT ![s] = "ingest_failed"]
            /\ new_name' = [new_name EXCEPT ![s] = << >>]
            /\ UNCHANGED << source_docs, shown, full_response, context_docs,
                            retrieval >>
       ELSE IF source_docs[s] # << >>
       THEN /\ pc' = [pc EXCEPT ![s] = "pns_clear"]
            /\ UNCHANGED << source_docs, new_name, outcome, shown,
                            full_response, context_docs, retrieval >>
       ELSE /\ RunMainChat(s, SessionState(s))
            /\ outcome' = [outcome EXCEPT ![s] = "no_content"]
            /\ source_docs' = [source_docs EXCEPT ![s] = << >>]
            /\ new_name' = [new_name EXCEPT ![s] = << >>]
    /\ UNCHANGED << before_ask, returned_none >>
    /\ UNCHANGED << allowed, sessionVars, vector_store, cacheVars, files, pre,
                    nIngests, nAsks >>

---------------------------------------------------------------------------
(* process_new_source, app.py lines 84-92, one step per access to the       *)
(* shared memo tables                                                       *)

(* Lines 85-86: st.cache_resource.clear() and st.cache_data.clear() leave   *)
(* every table empty.                                                       *)
KeptCache(table) == table
ClearedCache(table) == {}

PnsClearCaches(s) ==
    /\ s \in allowed
    /\ pc[s] = "pns_clear"
    /\ cache_vs' = ClearedCache(cache_vs)
    /\ cache_chain' = ClearedCache(cache_chain)
    /\ cache_sq' = ClearedCache(cache_sq)
    /\ cache_gvt' = ClearedCache(cache_gvt)
    /\ cache_whisper' = ClearedCache(cache_whisper)
    /\ cache_web' = ClearedCache(cache_web)
    /\ cache_doc' = ClearedCache(cache_doc)
    /\ cache_pdf' = ClearedCache(cache_pdf)
    /\ cache_docx' = ClearedCache(cache_docx)
    /\ pc' = [pc EXCEPT ![s] = "pns_vs"]
    /\ returned_none' = [returned_none EXCEPT !.since_clear = {}]
    /\ UNCHANGED before_ask
    /\ UNCHANGED << allowed, sessionVars, localVars, shown, files, video,
                    upload, pre, outcome, nIngests, nAsks >>

(* src/vector_store.py create_vector_store: what the splitter and the       *)
(* embedding model can do.                                                  *)
StoreOutcomes == {"ok", "no_chunks", "embedding_fails"}
CreateVectorStore(documents, so) ==
    IF documents = << >> \/ so # "ok"
    THEN [raised |-> TRUE, value |-> NoStore]
    ELSE [raised |-> FALSE, value |-> Store(documents)]

(* Line 87.  create_vector_store is memoized on its argument documents. *)
PnsCreateVectorStore(s) ==
    /\ s \in allowed
    /\ pc[s] = "pns_vs"
    /\ IF CacheHit(cache_vs, source_docs[s])
       THEN /\ vector_store' = [vector_store EXCEPT
                                  ![s] = CacheValue(cache_vs, source_docs[s])]
            /\ pc' = [pc EXCEPT ![s] = "pns_chain"]
            /\ UNCHANGED << cache_vs, outcome, source_docs, new_name >>
       ELSE \E so \in StoreOutcomes :
              LET r == CreateVectorStore(source_docs[s], so)
              IN  IF r.raised
                  THEN /\ pc' = [pc EXCEPT ![s] = "crashed"]
                       /\ outcome' = [outcome EXCEPT ![s] = "ingest_failed"]
                       /\ source_docs' = [source_docs EXCEPT ![s] = << >>]
                       /\ new_name' = [new_name EXCEPT ![s] = << >>]
                       /\ UNCHANGED << vector_store, cache_vs >>
                  ELSE /\ vector_store' = [vector_store EXCEPT ![s] = r.value]
                       /\ cache_vs' = CachePut(cache_vs, source_docs[s], r.value)
                       /\ pc' = [pc EXCEPT ![s] = "pns_chain"]
                       /\ UNCHANGED << outcome, source_docs, new_name >>
    /\ UNCHANGED << before_ask, returned_none >>
    /\ UNCHANGED << allowed, sessionVars, full_response, context_docs,
                    retrieval, shown, cache_chain, cache_sq, cache_gvt,
                    cache_whisper, cache_web, docCacheVars, files, video,
                    upload, pre, nIngests, nAsks >>

(* src/rag_pipeline.py create_rag_chain: the chain over _retriever, or the  *)
(* re-raised failure to initialise the model (lines 101-106).               *)
ChainOutcomes == {"ok", "llm_init_fails"}
CreateRagChain(retriever, co) ==
    IF co = "ok" THEN [raised |-> FALSE, value |-> Chain(retriever)]
    ELSE [raised |-> TRUE, value |-> NoChain]

(* The memo key of create_rag_chain(_retriever) and of                      *)
(* generate_suggested_questions(_docs): the underscore keeps the only       *)
(* argument out of the key.                                                 *)
KeyOfUnderscored(arg) == NoArgs

(* Lines 88-90 on session state st, given what create_rag_chain did. *)
ChainDroppedOnFailure(st, r, name) ==
    IF r.raised THEN [st EXCEPT !.rag_chain = NoChain]
    ELSE [st EXCEPT !.rag_chain = r.value, !.chat_history = << >>,
                    !.source_name = name]
ResetBeforeChain(st, r, name) ==
    IF r.raised
    THEN [st EXCEPT !.chat_history = << >>, !.source_name = name]
    ELSE [st EXCEPT !.rag_chain = r.value, !.chat_history = << >>,
                    !.source_name = name]
AssignChain(st, r, name) ==
    IF r.raised THEN st
    ELSE [st EXCEPT !.rag_chain = r.value, !.chat_history = << >>,
                    !.source_name = name]

PnsCreateRagChain(s) ==
    /\ s \in allowed
    /\ pc[s] = "pns_chain"
    /\ \E co \in ChainOutcomes :
         LET key == KeyOfUnderscored(vector_store[s].index)
             hit == CacheHit(cache_chain, key)
             r == IF hit
                  THEN [raised |-> FALSE, value |-> CacheValue(cache_chain, key)]
                  ELSE CreateRagChain(vector_store[s].index, co)
             st == AssignChain(SessionState(s), r, new_name[s])
         IN  /\ cache_chain' = IF hit \/ r.raised THEN cache_chain
                               ELSE CachePut(cache_chain, key, r.value)
             /\ rag_chain' = [rag_chain EXCEPT ![s] = st.rag_chain]
             /\ chat_history' = [chat_history EXCEPT ![s] = st.chat_history]
             /\ source_name' = [source_name EXCEPT ![s] = st.source_name]
             /\ pc' = [pc EXCEPT ![s] = IF r.raised THEN "crashed" ELSE "pns_sq"]
             /\ outcome' = [outcome EXCEPT
                              ![s] = IF r.raised THEN "ingest_failed" ELSE @]
             /\ source_docs' = [source_docs EXCEPT
                                  ![s] = IF r.raised THEN << >> ELSE @]
             /\ before_ask' = [before_ask EXCEPT
                                 ![s] = IF r.raised THEN @ ELSE << >>]
    /\ vector_store' = [vector_store EXCEPT ![s] = NoStore]
    /\ new_name' = [new_name EXCEPT ![s] = << >>]
    /\ UNCHANGED returned_none
    /\ UNCHANGED << allowed, suggested_questions, full_response, context_docs,
                    retrieval, shown, cache_vs, cache_sq, cache_gvt,
                    cache_whisper, cache_web, docCacheVars, files, video,
                    upload, pre, nIngests, nAsks >>

(* generate_suggested_questions, lines 54-66: the questions the model       *)
(* writes about the first documents' text, or [] when the call fails or     *)
(* nothing parses.                                                          *)
SuggestOutcomes == {"ok", "fails"}
QuestionsAbout(docs) ==
    [i \in 1..Len(docs) |-> << "What about" >> \o docs[i].page_content]
GenerateSuggestedQuestions(docs, go) ==
    IF docs = << >> \/ go # "ok" THEN << >> ELSE QuestionsAbout(docs)

(* Lines 91-92, then the st.rerun() of the handler (111): the new script    *)
(* run renders the empty chat and reaches the end.                          *)
PnsSuggest(s) ==
    /\ s \in allowed
    /\ pc[s] = "pns_sq"
    /\ \E go \in SuggestOutcomes :
         LET key == KeyOfUnderscored(source_docs[s])
             hit == CacheHit(cache_sq, key)
             qs == IF hit THEN CacheValue(cache_sq, key)
                   ELSE GenerateSuggestedQuestions(source_docs[s], go)
         IN  /\ cache_sq' = IF hit THEN cache_sq ELSE CachePut(cache_sq, key, qs)
             /\ suggested_questions' = [suggested_questions EXCEPT ![s] = qs]
             /\ RunMainChat(s, [SessionState(s) EXCEPT !.suggested_questions = qs])
             /\ pre' = [pre EXCEPT
                          ![s] = [SessionState(s) EXCEPT
                                    !.suggested_questions = qs]]
    /\ outcome' = [outcome EXCEPT ![s] = "ingested"]
    /\ returned_none' = [returned_none EXCEPT !.since_ingest = {}]
    /\ UNCHANGED before_ask
    /\ UNCHANGED << allowed, rag_chain, chat_history, source_name, source_docs,
                    new_name, vector_store, cache_vs, cache_chain, cache_gvt,
                    cache_whisper, cache_web, docCacheVars, files, video,
                    upload, nIngests, nAsks >>

---------------------------------------------------------------------------
(* Main chat interface, app.py lines 128-172 *)

(* Lines 168 and 172: the new user turn, then st.rerun(); the new script    *)
(* run finds the unanswered turn and opens the answer stream.               *)
AddUserTurn(s, q) ==
    LET st == [SessionState(s) EXCEPT
                 !.chat_history = Append(@, HumanMessage(q))]
    IN  /\ nAsks < MaxAsks
        /\ nAsks' = nAsks + 1
        /\ pre' = [pre EXCEPT ![s] = SessionState(s)]
        /\ before_ask' = [before_ask EXCEPT ![s] = chat_history[s]]
        /\ chat_history' = [chat_history EXCEPT ![s] = st.chat_history]
        /\ outcome' = [outcome EXCEPT ![s] = "asking"]
        /\ RunMainChat(s, st)
        /\ UNCHANGED << allowed, rag_chain, suggested_questions, source_name,
                        source_docs, new_name, vector_store, cacheVars, files,
                        video, upload, returned_none, nIngests >>

(* The suggestion buttons and the chat input are on the page only after a   *)
(* script run that reached lines 162-172: one in the else branch of the     *)
(* guard of line 129 that did not enter the streaming block, which always   *)
(* ends in st.rerun() or an exception.                                      *)
ChatOfferedWithoutChain(st) == ~StreamDue(st)
ChatOffered(st) == st.rag_chain.built /\ ~StreamDue(st)

(* Lines 170-172. *)
ChatInput(s, q) ==
    /\ s \in allowed
    /\ pc[s] = "idle"
    /\ ChatOffered(SessionState(s))
    /\ AddUserTurn(s, q)

(* Lines 162-168: one button per suggested question. *)
ClickSuggestion(s, i) ==
    /\ s \in allowed
    /\ pc[s] = "idle"
    /\ ChatOffered(SessionState(s))
    /\ i \in 1..Len(suggested_questions[s])
    /\ AddUserTurn(s, suggested_questions[s][i])

(* langchain's create_history_aware_retriever as built at rag_pipeline.py   *)
(* lines 121-123: with no chat history the input is the query; otherwise    *)
(* the model rewrites it, and a failing model call raises.                  *)
LlmOutcomes == {"ok", "fails"}
HistoryAwareQuery(input, history, lo) ==
    IF history = << >>
    THEN [raised |-> FALSE, how |-> "raw", query |-> input]
    ELSE IF lo = "ok"
    THEN [raised |-> FALSE, how |-> "reformulated",
          query |-> << "standalone" >> \o input]
    ELSE [raised |-> TRUE, how |-> "reformulation_failed", query |-> << >>]

(* What the rewriting call can do; it is made only with a chat history      *)
(* before the last turn.                                                    *)
LlmOutcomesOf(history) == IF Len(history) > 1 THEN LlmOutcomes ELSE {"ok"}

(* First part of the stream opened at line 152 on the last turn's text and  *)
(* chat_history[:-1]: the retriever runs and the chain yields the context   *)
(* chunk (155), or the stream raises out of the for loop.                   *)
Retrieve(s) ==
    /\ s \in allowed
    /\ pc[s] = "retrieve"
    /\ \E lo \in LlmOutcomesOf(chat_history[s]), ro \in {"ok", "fails"} :
         LET h == chat_history[s]
             r == HistoryAwareQuery(h[Len(h)].content, SubSeq(h, 1, Len(h) - 1), lo)
         IN  IF r.raised \/ ro = "fails"
             THEN /\ pc' = [pc EXCEPT ![s] = "crashed"]
                  /\ outcome' = [outcome EXCEPT ![s] = "stream_failed"]
                  /\ retrieval' = [retrieval EXCEPT
                                     ![s] = [how |-> r.how, query |-> r.query]]
                  /\ UNCHANGED << context_docs, pre >>
             ELSE /\ pc' = [pc EXCEPT ![s] = "answer"]
                  /\ retrieval' = [retrieval EXCEPT
                                     ![s] = [how |-> r.how, query |-> r.query]]
                  /\ context_docs' = [context_docs EXCEPT
                                        ![s] = rag_chain[s].retriever]
                  /\ outcome' = [outcome EXCEPT ![s] = "streaming"]
                  /\ pre' = [pre EXCEPT ![s] = SessionState(s)]
    /\ UNCHANGED << before_ask, returned_none >>
    /\ UNCHANGED << allowed, sessionVars, source_docs, new_name, vector_store,
                    full_response, shown, cacheVars, files, video, upload,
                    nIngests, nAsks >>

(* Line 154: one answer chunk of the stream. *)
AnswerChunk(s, tok) ==
    /\ s \in allowed
    /\ pc[s] = "answer"
    /\ tok \in NextChunks(full_response[s])
    /\ full_response' = [full_response EXCEPT ![s] = Append(@, tok)]
    /\ UNCHANGED << before_ask, returned_none >>
    /\ UNCHANGED << allowed, sessionVars, pc, source_docs, new_name,
                    vector_store, context_docs, retrieval, shown, cacheVars,
                    files, video, upload, pre, outcome, nIngests, nAsks >>

(* What an exception raised by the stream inside the for loop of line 153   *)
(* leaves of chat_history: lines 157-158 are not reached.                   *)
HistoryWithPartialAnswer(history, partial, context) ==
    Append(history, AIMessageOf(partial, context))
HistoryAfterFailedStream(history, partial, context) == history

StreamFail(s) ==
    /\ s \in allowed
    /\ pc[s] = "answer"
    /\ pc' = [pc EXCEPT ![s] = "crashed"]
    /\ outcome' = [outcome EXCEPT ![s] = "stream_failed"]
    /\ chat_history' = [chat_history EXCEPT
                          ![s] = HistoryAfterFailedStream(@, full_response[s],
                                                          context_docs[s])]
    /\ UNCHANGED << before_ask, returned_none >>
    /\ UNCHANGED << allowed, rag_chain, suggested_questions, source_name,
                    localVars, shown, cacheVars, files, video, upload, pre,
                    nIngests, nAsks >>

(* Lines 157-158: the answer turn the exhausted stream leaves. *)
ReplaceLastTurn(history, msg) ==
    SubSeq(history, 1, Len(history) - 1) \o << msg >>
AppendAnswer(history, msg) == Append(history, msg)

(* Lines 156-160: the stream is exhausted; the answer turn is appended, the *)
(* suggestions are cleared, and st.rerun() renders the chat to the end.     *)
StreamEnd(s) ==
    /\ s \in allowed
    /\ pc[s] = "answer"
    /\ full_response[s] \in Answers
    /\ LET st == [SessionState(s) EXCEPT
                    !.chat_history =
                        AppendAnswer(@, AIMessageOf(full_response[s],
                                                    context_docs[s])),
                    !.suggested_questions = << >>]
       IN  /\ chat_history' = [chat_history EXCEPT ![s] = st.chat_history]
           /\ suggested_questions' = [suggested_questions EXCEPT ![s] = << >>]
           /\ RunMainChat(s, st)
    /\ outcome' = [outcome EXCEPT ![s] = "answered"]
    /\ UNCHANGED << before_ask, returned_none >>
    /\ UNCHANGED << allowed, rag_chain, source_name, source_docs, new_name,
                    vector_store, cacheVars, files, video, upload, pre,
                    nIngests, nAsks >>

(* Any other event of the page (a sidebar widget edited, a Process button   *)
(* clicked with nothing to process): the script runs again with no handler. *)
(* A run inside the streaming loop is torn down first.                      *)
Rerun(s) ==
    /\ s \in allowed
    /\ pc[s] \in {"crashed"} \cup Streaming
    /\ outcome' = [outcome EXCEPT
                     ![s] = IF pc[s] \in Streaming THEN "cancelled" ELSE @]
    /\ RunMainChat(s, SessionState(s))
    /\ UNCHANGED << before_ask, returned_none >>
    /\ UNCHANGED << allowed, sessionVars, source_docs, new_name, vector_store,
                    cacheVars, files, video, upload, pre, nIngests, nAsks >>

---------------------------------------------------------------------------

Next ==
    \/ \E s \in Sessions, url \in URLs : ProcessVideoURL(s, url)
    \/ \E s \in Sessions, url \in URLs : ProcessWebURL(s, url)
    \/ \E s \in Sessions, upl \in Uploads : ProcessDocuments(s, upl)
    \/ \E s \in Sessions : AfterExtraction(s)
    \/ \E s \in Sessions : PnsClearCaches(s)
    \/ \E s \in Sessions : PnsCreateVectorStore(s)
    \/ \E s \in Sessions : PnsCreateRagChain(s)
    \/ \E s \in Sessions : PnsSuggest(s)
    \/ \E s \in Sessions, q \in Questions : ChatInput(s, q)
    \/ \E s \in Sessions :
         \E i \in 1..Len(suggested_questions[s]) : ClickSuggestion(s, i)
    \/ \E s \in Sessions : Retrieve(s)
    \/ \E s \in Sessions, tok \in AnswerTokens : AnswerChunk(s, tok)
    \/ \E s \in Sessions : StreamFail(s)
    \/ \E s \in Sessions : StreamEnd(s)
    \/ \E s \in Sessions : Rerun(s)

Spec == Init /\ [][Next]_vars
SpecConcurrent == InitConcurrent /\ [][Next]_vars

---------------------------------------------------------------------------
(* Properties *)

BeforeAssignment == {"extracted", "pns_clear", "pns_vs", "pns_chain"}

(* C1  Ingest atomicity.  While an ingest has not passed create_rag_chain,  *)
(* and after one that ended without content or with an exception of the    *)
(* extraction, of create_vector_store or of create_rag_chain, the session's *)
(* chain, chat history, source name and suggested questions are exactly     *)
(* what they were when the Process button was clicked.                      *)
IngestAtomicity ==
    \A s \in Sessions :
        (\/ pc[s] \in BeforeAssignment
         \/ outcome[s] \in {"no_content", "ingest_failed"})
        => SessionState(s) = pre[s]

(* A second ingest has failed in a session that had a chain, a chat and     *)
(* a source name.                                                           *)
IngestAtomicityWitness ==
    \E s \in Sessions :
        /\ outcome[s] = "ingest_failed"
        /\ pc[s] = "crashed"
        /\ rag_chain[s].built
        /\ Len(chat_history[s]) >= 2
        /\ source_name[s] # << >>

(* C2  Session reset.  After every successful process_new_source the chat   *)
(* history is empty and the suggested questions are the ones generated      *)
(* from the documents just ingested, or none.                               *)
SessionReset ==
    \A s \in Sessions :
        outcome[s] = "ingested"
        => /\ chat_history[s] = << >>
           /\ suggested_questions[s]
                \in {<< >>, GenerateSuggestedQuestions(source_docs[s], "ok")}

(* C3  History growth.  When the answer stream of an ask is exhausted, the  *)
(* chat history is the history before the ask followed by the user turn     *)
(* with the question and the answer turn with the whole reply, in that      *)
(* order, and the suggested questions are cleared.                          *)
HistoryGrowth ==
    \A s \in Sessions :
        outcome[s] = "answered"
        => LET h == chat_history[s]
               n == Len(before_ask[s])
           IN  /\ Len(h) = n + 2
               /\ SubSeq(h, 1, n) = before_ask[s]
               /\ h[n + 1].type = "human"
               /\ h[n + 1].content
                    \in Questions \cup Range(pre[s].suggested_questions)
               /\ h[n + 2].type = "ai"
               /\ h[n + 2].content \in Answers
               /\ suggested_questions[s] = << >>

(* A second ask has been answered: two earlier turns, two new ones. *)
HistoryGrowthWitness ==
    \E s \in Sessions :
        /\ outcome[s] = "answered"
        /\ Len(before_ask[s]) = 2
        /\ Len(chat_history[s]) = 4

(* C4 as stated  Citation coupling of the stored turns: an answer turn of   *)
(* chat_history carries a non-empty context only if its text begins with    *)
(* the marker.                                                              *)
StoredCitationCoupling ==
    \A s \in Sessions :
        \A i \in 1..Len(chat_history[s]) :
            LET msg == chat_history[s][i]
            IN  (msg.type = "ai" /\ msg.context # << >>)
                => StartsWith(msg.content, ContextMarker)

(* C4 as amended  Every stored answer turn carries the documents its        *)
(* stream retrieved, whatever its text; the rendered chat shows a turn's    *)
(* sources only if its text begins with the marker.                         *)
ShownCitationCoupling ==
    \A s \in Sessions :
        /\ \A i \in 1..Len(chat_history[s]) :
              chat_history[s][i].type = "ai"
              => chat_history[s][i].context = rag_chain[s].retriever
        /\ \A i \in 1..Len(shown[s]) :
              shown[s][i].sources # << >>
              => StartsWith(shown[s][i].content, ContextMarker)

(* The rendered chat holds an answer that begins with the marker, with its  *)
(* sources shown, and one that does not, stored with its context and shown  *)
(* without sources.                                                         *)
ShownCitationCouplingWitness ==
    \E s \in Sessions :
        /\ Len(shown[s]) = Len(chat_history[s])
        /\ \E i \in 1..Len(shown[s]) : shown[s][i].sources # << >>
        /\ \E i \in 1..Len(shown[s]) :
              /\ chat_history[s][i].type = "ai"
              /\ chat_history[s][i].context # << >>
              /\ ~StartsWith(chat_history[s][i].content, ContextMarker)
              /\ shown[s][i].sources = << >>

(* C5  No contamination between sessions.  The chain and the suggested      *)
(* questions a successful ingest stores in a session are the ones computed  *)
(* from that session's own documents.                                       *)
NoSourceContamination ==
    \A s \in Sessions :
        (pc[s] = "pns_sq" \/ outcome[s] = "ingested")
        => /\ rag_chain[s] = Chain(source_docs[s])
           /\ outcome[s] = "ingested"
              => \A i \in 1..Len(suggested_questions[s]) :
                    suggested_questions[s][i] \in
                        Range(QuestionsAbout(source_docs[s]))

(* The documents the extraction of each source can yield, by the name the   *)
(* session gives the source.                                                *)
SourceNames == URLs \cup {JoinNames(upl) : upl \in Uploads}
DocsOfSource ==
    [name \in SourceNames |->
        IF \E upl \in Uploads : JoinNames(upl) = name
        THEN {LoadAll(upl, [i \in 1..Len(upl) |-> "ok"], 1,
                      [raised |-> FALSE, all_docs |-> << >>, files |-> {},
                       doc |-> {}, pdf |-> {}, docx |-> {},
                       calls |-> << >>]).all_docs :
                 upl \in {u \in Uploads : JoinNames(u) = name}}
        ELSE IF IsYouTube(name)
        THEN {<< Document(GetVideoTranscript(name, fo, wo, {}, {}).result) >> :
                 fo \in FetchOutcomes, wo \in WhisperOutcomes}
        ELSE {LoadFromWebpage(name, "ok")}]
DocsFrom(name) ==
    IF name \in SourceNames THEN DocsOfSource[name] ELSE {}

(* C6  No stale cache across a source change, one session.  The vector      *)
(* store and the chain an ingest obtains are built from the documents of    *)
(* that ingest, never a memoized result of an earlier source, and every     *)
(* answer stream retrieves from the documents of the source the session     *)
(* names.                                                                   *)
NoStaleCache ==
    \A s \in Sessions :
        /\ pc[s] = "pns_chain" => vector_store[s] = Store(source_docs[s])
        /\ pc[s] = "pns_sq" => rag_chain[s] = Chain(source_docs[s])
        /\ rag_chain[s].built
           => rag_chain[s].retriever \in DocsFrom(source_name[s])
        /\ pc[s] = "answer" => context_docs[s] \in DocsFrom(source_name[s])

(* The chain of a second ingest has been obtained, for another source than  *)
(* the one the session had.                                                 *)
NoStaleCacheWitness ==
    \E s \in Sessions :
        /\ pc[s] = "pns_sq"
        /\ pre[s].rag_chain.built
        /\ pre[s].source_name # source_name[s]
        /\ pre[s].rag_chain # rag_chain[s]

(* C7  A failed or cancelled stream appends nothing.  Every step a session  *)
(* takes from inside an open answer stream, other than the stream's         *)
(* exhaustion, leaves its chat history, chain, source name and suggested    *)
(* questions as they were: no answer turn with the text received so far.    *)
NoPartialAnswerTurn ==
    [][\A s \in Sessions :
          (pc[s] \in Streaming /\ outcome'[s] # "answered")
          => SessionState(s)' = SessionState(s)]_vars

(* A stream has failed after text was received, and the last turn is still *)
(* the user's.                                                              *)
NoPartialAnswerTurnWitness ==
    \E s \in Sessions :
        /\ pc[s] = "crashed"
        /\ outcome[s] = "stream_failed"
        /\ full_response[s] # << >>
        /\ chat_history[s][Len(chat_history[s])].type = "human"

(* C8  Query-reformulation failure is non-fatal.  When the model call that  *)
(* rewrites the question fails, the stream goes on, retrieving with the     *)
(* user's question as asked.                                                *)
ReformulationFailureNonFatal ==
    \A s \in Sessions :
        retrieval[s].how = "reformulation_failed"
        => /\ pc[s] # "crashed"
           /\ retrieval[s].query
                = chat_history[s][Len(chat_history[s])].content

(* C9  Fallback ordering.  In every body run of get_video_transcript the    *)
(* audio transcription is attempted if and only if the transcript fetch     *)
(* raised NoTranscriptFound, and after that fetch; a fetched transcript is  *)
(* returned without transcription, and any other error returns None with    *)
(* no fallback.                                                             *)
FallbackOrdering ==
    \A s \in Sessions :
        LET v == video[s]
        IN  (pc[s] = "extracted" /\ v.url # << >> /\ ~v.cached)
            => /\ v.events \in {<< >>, << "fetch" >>, << "fetch", "transcribe" >>}
               /\ "transcribe" \in Range(v.events)
                    <=> v.fetch = "NoTranscriptFound"
               /\ v.fetch = "ok"
                    => v.result = << "transcript", VideoId(v.url) >>
               /\ v.fetch \in {"error", "not_attempted"}
                    => v.result = NoTranscript

(* A body run whose fetch found no transcript has fallen back to the        *)
(* transcription, which returned a text.                                    *)
FallbackOrderingWitness ==
    \E s \in Sessions :
        /\ pc[s] = "extracted"
        /\ video[s].fetch = "NoTranscriptFound"
        /\ video[s].events = << "fetch", "transcribe" >>
        /\ video[s].result # NoTranscript

(* C11  Document temp-file cleanup.  After every body run of                *)
(* load_and_cache_document (PDF, DOCX or another type; segments returned or *)
(* an exception of the loader) the file temp_docs_cache/<md5><extension> it *)
(* wrote is no longer on disk.                                              *)
DocTempFileRemoved ==
    \A s \in Sessions :
        \A i \in 1..Len(upload[s].calls) :
            upload[s].calls[i].how # "cached"
            => upload[s].calls[i].path \notin files

(* One handler run has taken a file of an unsupported type and a PDF        *)
(* through the body, and its DOCX loader has thrown.                        *)
DocTempFileRemovedWitness ==
    \E s \in Sessions :
        /\ pc[s] = "extracted"
        /\ upload[s].raised
        /\ \E i, j, k \in 1..Len(upload[s].calls) :
              /\ upload[s].calls[i].how = "unsupported"
              /\ upload[s].calls[j].how = "loaded"
              /\ upload[s].calls[k].how = "raised"
              /\ upload[s].calls[k].path = TempPath(DOCX1)

(* C12 as stated  Ask before any ingest.  In a session that has no chain, a *)
(* question can be asked, the ask fails with a retrieval error, and the     *)
(* chat history stays empty.                                                *)
AskBeforeIngestFails ==
    \A s \in allowed :
        (~rag_chain[s].built /\ pc[s] = "idle")
        => /\ chat_history[s] = << >>
           /\ ENABLED (\E q \in Questions :
                          /\ ChatInput(s, q)
                          /\ outcome'[s] = "retrieval_error")

(* C12 as amended  While a session has no chain, its page offers neither    *)
(* the chat input nor a suggestion button, so no question can be asked: no  *)
(* stream is open or has failed, the chat history is empty and nothing of   *)
(* a chat is rendered.                                                      *)
NoAskBeforeIngest ==
    \A s \in allowed :
        ~rag_chain[s].built
        => /\ ~ChatOffered(SessionState(s))
           /\ pc[s] \notin Streaming
           /\ outcome[s] \notin {"asking", "streaming", "answered",
                                 "stream_failed", "cancelled"}
           /\ chat_history[s] = << >>
           /\ shown[s] = << >>

(* A script run has reached the main chat interface of a session whose      *)
(* ingests have all failed: it has no chain.                                *)
NoAskBeforeIngestWitness ==
    \E s \in allowed :
        /\ ~rag_chain[s].built
        /\ pc[s] = "idle"
        /\ outcome[s] = "no_content"

(* C13  No Indexed -> Empty transition.  No step takes a session that has   *)
(* a chain to having none, and the chain of a session changes only in the   *)
(* step of process_new_source in which create_rag_chain returned, to the    *)
(* chain that call returned.                                                *)
NoIndexedToEmpty ==
    [][\A s \in Sessions :
          /\ rag_chain[s].built => rag_chain'[s].built
          /\ rag_chain'[s] # rag_chain[s]
             => /\ pc[s] = "pns_chain"
                /\ pc'[s] = "pns_sq"
                /\ rag_chain'[s].built]_vars

(* A session with a chain and an unanswered question has been through an    *)
(* extraction without content, which tore the stream down; the chain is     *)
(* still there and the next script run has reopened the stream.             *)
NoIndexedToEmptyWitness ==
    \E s \in Sessions :
        /\ rag_chain[s].built
        /\ outcome[s] = "no_content"
        /\ pc[s] = "retrieve"

(* C14  History alternation.  In every state the chat history of a session *)
(* is a user turn, an answer turn, a user turn, ...: the turns at odd       *)
(* places are the user's, those at even places are answers.                 *)
HistoryAlternation ==
    \A s \in Sessions :
        \A i \in 1..Len(chat_history[s]) :
            chat_history[s][i].type = IF i % 2 = 1 THEN "human" ELSE "ai"

(* After an answered question, the stream of a second question has failed   *)
(* and left the user turn unanswered; the next script run has reopened the  *)
(* stream instead of offering the chat input.                               *)
HistoryAlternationWitness ==
    \E s \in Sessions :
        /\ outcome[s] = "stream_failed"
        /\ pc[s] = "retrieve"
        /\ Len(chat_history[s]) = 3
        /\ chat_history[s][3].type = "human"

(* No session is between the cache clears of process_new_source and its    *)
(* end.                                                                     *)
NoIngestUnderWay == \A s \in Sessions : pc[s] \notin {"pns_vs", "pns_chain", "pns_sq"}

(* C15 as stated  Memoized extraction failure.  A None returned by          *)
(* get_video_transcript for a URL stays memoized under the URL until a      *)
(* successful ingest: with no successful ingest since, the None is in the   *)
(* memo table, and processing the URL again returns None from the table,    *)
(* with no transcript fetch and no transcription.                           *)
MemoizedUntilSuccessfulIngest ==
    [][/\ NoIngestUnderWay'
          => \A url \in returned_none'.since_ingest :
                /\ CacheHit(cache_gvt', url)
                /\ CacheValue(cache_gvt', url) = NoTranscript
       /\ \A s \in Sessions :
             (/\ pc[s] \in Interactive
              /\ pc'[s] = "extracted"
              /\ video'[s].url \in returned_none.since_ingest)
             => /\ video'[s].cached
                /\ video'[s].events = << >>
                /\ video'[s].result = NoTranscript]_vars

(* C15 as amended  The same, until process_new_source is next entered (by   *)
(* an extraction that yielded content, whether that ingest then succeeds    *)
(* or fails): with no entry of process_new_source since, the None is in the *)
(* memo table, and processing the URL again returns None from the table,    *)
(* with no transcript fetch and no transcription.                           *)
MemoizedUntilCachesCleared ==
    [][/\ \A url \in returned_none'.since_clear :
             /\ CacheHit(cache_gvt', url)
             /\ CacheValue(cache_gvt', url) = NoTranscript
       /\ \A s \in Sessions :
             (/\ pc[s] \in Interactive
              /\ pc'[s] = "extracted"
              /\ video'[s].url \in returned_none.since_clear)
             => /\ video'[s].cached
                /\ video'[s].events = << >>
                /\ video'[s].result = NoTranscript]_vars

(* A URL whose fetch failed has been processed again and has returned None  *)
(* from the memo table.                                                     *)
MemoizedUntilCachesClearedWitness ==
    \E s \in Sessions :
        /\ pc[s] = "extracted"
        /\ video[s].cached
        /\ video[s].result = NoTranscript
        /\ HasVideoId(video[s].url)
        /\ video[s].url \in returned_none.since_clear

(* C10  Audio artifact cleanup.  Once _transcribe_audio_with_whisper has    *)
(* returned, neither temp_audio.mp4 nor temp_audio.mp3 is on disk.          *)
AudioArtifactsRemoved ==
    files \cap {MP4, MP3} = {}

====
